---------------------------- MODULE Spec2Model ----------------------------
(***************************************************************************)
(* Model of src/main.py: the LED-matrix show driver.                       *)
(*                                                                         *)
(* Numbers.  The code computes with floats; the model computes the same    *)
(* quantities exactly with integers:                                       *)
(*   - BRIGHTNESS (0.05) is carried in hundredths, a boost in tenths, so   *)
(*     the factor BRIGHTNESS*boost is carried in thousandths;              *)
(*   - int(x) of a non-negative product is the floor of the exact product  *)
(*     (a float product can round one below the exact floor for a few      *)
(*     inputs; it never leaves the interval between 0 and the channel);    *)
(*   - times are integer milliseconds, as time.ticks_ms() returns them.    *)
(***************************************************************************)
EXTENDS Integers, Sequences, FiniteSets, TLC

\* ------------------------------------------------------------------------
\* Configuration (main.py:9-26, 55-61)
\* ------------------------------------------------------------------------
LED_NUM_A == 120
LED_NUM_B == 64
\* 0.05, in hundredths
BRIGHTNESS == 5
\* 10.0, in tenths
HIT_POINT_BRIGHTNESS_BOOST == 100
\* the default boost 1.0 of scale() and set_pixel(), in tenths
DEFAULT_BOOST == 10
WAVE_LIGHT_SPREAD_DELAY == 80
WAVE_LIGHT_DURATION == 120
FADE_STEPS == 10
FADE_INTERVAL == 40
NORMAL_MODE_MIN_DELAY == 2
NORMAL_MODE_MAX_DELAY == 5
CORNER_MODE_MIN_DELAY == 5
CORNER_MODE_MAX_DELAY == 10
\* hold delays of start_fade_animation
HIT_HOLD == 100
VERTICAL_HOLD == 50
\* the pause of the main loop
IDLE_SLEEP == 5

ROWS == 16
COLS == 15
A_ROWS == (ROWS + 1) \div 2
B_ROWS == ROWS \div 2
LEDS_PER_ACOL == A_ROWS
LEDS_PER_BROW == (COLS + 1) \div 2

\* ------------------------------------------------------------------------
\* Bounds of the model
\* ------------------------------------------------------------------------
\* longest event list read from hits.json
MaxHits == 2
\* every sleep of a show may overrun by 0 or by MaxLag milliseconds
MaxLag == 20
\* idle iterations of the main loop folded into one Sleep step
IdleRun == 100
\* largest boost, in tenths, passed to scale on its own (the factor
\* BRIGHTNESS * boost reaches 1.0 at boost 20.0, that is 200 tenths)
MaxBoost == 300
\* latest time, in ms after the dispatch, of a lone call of process_active_points
MaxTime == 520

Min(a, b) == IF a <= b THEN a ELSE b
Max(a, b) == IF a >= b THEN a ELSE b

Black == <<0, 0, 0>>
Red == <<255, 0, 0>>
Blue == <<0, 0, 255>>

\* ------------------------------------------------------------------------
\* scale (main.py:29-38)
\* ------------------------------------------------------------------------
\* the factor without its cap
ScaleFactor_uncapped(boost) == BRIGHTNESS * boost

\* factor = min(BRIGHTNESS * boost, 1.0), in thousandths
ScaleFactor(boost) == Min(BRIGHTNESS * boost, 1000)

scale(rgb, boost) ==
    << (rgb[1] * ScaleFactor(boost)) \div 1000,
       (rgb[2] * ScaleFactor(boost)) \div 1000,
       (rgb[3] * ScaleFactor(boost)) \div 1000 >>

\* ------------------------------------------------------------------------
\* grid_to_led (main.py:67-95).  The result is a pair: <<strip, index>>,
\* NoLed for the return value None, Raised for the ValueError
\* ------------------------------------------------------------------------
NoLed == <<"None", 0>>
Raised == <<"ValueError", 0>>

\* the range test with the row bound one too far
InRange_inclusive(location) ==
    /\ 0 <= location[1] /\ location[1] <= ROWS
    /\ 0 <= location[2] /\ location[2] < COLS

InRange(location) ==
    /\ 0 <= location[1] /\ location[1] < ROWS
    /\ 0 <= location[2] /\ location[2] < COLS

\* grid_to_led with the reversed columns of strip A one index too far
grid_to_led_offbyone(location) ==
    LET row == location[1]
        col == location[2]
    IN  IF ~InRange(location) THEN Raised
        ELSE IF row % 2 = 0
        THEN LET base == col * LEDS_PER_ACOL
                 offset == row \div 2
             IN  IF col % 2 = 0
                 THEN <<"A", base + offset>>
                 ELSE <<"A", base + (LEDS_PER_ACOL - offset)>>
        ELSE IF col % 2 = 1 THEN NoLed
        ELSE LET brow == (row - 1) \div 2
                 base == brow * LEDS_PER_BROW
                 offset == col \div 2
             IN  IF brow % 2 = 0
                 THEN <<"B", base + offset>>
                 ELSE <<"B", base + (LEDS_PER_BROW - 1 - offset)>>

\* grid_to_led with the holes of strip B on the even columns
grid_to_led_evenholes(location) ==
    LET row == location[1]
        col == location[2]
    IN  IF ~InRange(location) THEN Raised
        ELSE IF row % 2 = 0
        THEN LET base == col * LEDS_PER_ACOL
                 offset == row \div 2
             IN  IF col % 2 = 0
                 THEN <<"A", base + offset>>
                 ELSE <<"A", base + (LEDS_PER_ACOL - 1 - offset)>>
        ELSE IF col % 2 = 0 THEN NoLed
        ELSE LET brow == (row - 1) \div 2
                 base == brow * LEDS_PER_BROW
                 offset == col \div 2
             IN  IF brow % 2 = 0
                 THEN <<"B", base + offset>>
                 ELSE <<"B", base + (LEDS_PER_BROW - 1 - offset)>>

\* grid_to_led with the base of strip B taken from row instead of brow
grid_to_led_rowbase(location) ==
    LET row == location[1]
        col == location[2]
    IN  IF ~InRange(location) THEN Raised
        ELSE IF row % 2 = 0
        THEN LET base == col * LEDS_PER_ACOL
                 offset == row \div 2
             IN  IF col % 2 = 0
                 THEN <<"A", base + offset>>
                 ELSE <<"A", base + (LEDS_PER_ACOL - 1 - offset)>>
        ELSE IF col % 2 = 1 THEN NoLed
        ELSE LET brow == (row - 1) \div 2
                 base == row * LEDS_PER_BROW
                 offset == col \div 2
             IN  IF brow % 2 = 0
                 THEN <<"B", base + offset>>
                 ELSE <<"B", base + (LEDS_PER_BROW - 1 - offset)>>

grid_to_led(location) ==
    LET row == location[1]
        col == location[2]
    IN  IF ~InRange(location) THEN Raised
        ELSE IF row % 2 = 0
        THEN LET base == col * LEDS_PER_ACOL
                 offset == row \div 2
             IN  IF col % 2 = 0
                 THEN <<"A", base + offset>>
                 ELSE <<"A", base + (LEDS_PER_ACOL - 1 - offset)>>
        ELSE IF col % 2 = 1 THEN NoLed
        ELSE LET brow == (row - 1) \div 2
                 base == brow * LEDS_PER_BROW
                 offset == col \div 2
             IN  IF brow % 2 = 0
                 THEN <<"B", base + offset>>
                 ELSE <<"B", base + (LEDS_PER_BROW - 1 - offset)>>


\* ------------------------------------------------------------------------
\* State
\* ------------------------------------------------------------------------
VARIABLES
    pc,                    \* position of the program
    exc,                   \* exception that ended the show: "none", "OSError", "ValueError"
    stripA, stripB,        \* the NeoPixel buffers (main.py:51-52)
    wireA, wireB,          \* the colours the LEDs of each strip show
    lastOp,                \* history: the last pixel operation, "none", "set", "write", "clear"
    active_hits,           \* main.py:63, cell -> <<color, start_fade_time>>
    active_vertical_leds,  \* main.py:64
    clock,                 \* time.ticks_ms()
    lag,                   \* overrun of every sleep of this show
    fileExists,            \* "hits.json" in os.listdir()
    hits,                  \* content of hits.json
    is_in_corner,          \* argument of play_hits
    processed_hits,        \* play_visualization: [current_time, row, col, color]
    start_ms, next_index, now,
    hit,                   \* display_hit_effect: [row, col, color] of the running call
    step, current_col,     \* display_hit_effect: loop variables of the two phases
    active_wave_pixels,    \* display_hit_effect: <<wave_col, off_time>> list
    lit,                   \* history: cells set_pixel has given a non-black value
    dispatched,            \* history: indices of processed_hits handed to display_hit_effect
    expSteps, refSteps,    \* history: iterations of the two phases of the last call
    reflected,             \* history: columns the reflection of the last call has lit
    opCount,               \* history: pixel assignments, fills and writes made so far
    hitTime,               \* history: ticks_ms() at the last call of display_hit_effect
    call                   \* a call of a pure function: its arguments and its result

vars == << pc, exc, stripA, stripB, wireA, wireB, active_hits, active_vertical_leds,
           clock, lag, fileExists, hits, is_in_corner, processed_hits, start_ms,
           next_index, now, hit, step, current_col, active_wave_pixels, lit,
           dispatched, expSteps, refSteps, call, lastOp, reflected, opCount,
           hitTime >>

\* ------------------------------------------------------------------------
\* The pixel output: a record of both buffers, both wires, the exception
\* raised so far and the cells lit so far
\* ------------------------------------------------------------------------
Hw == [A |-> stripA, B |-> stripB, wA |-> wireA, wB |-> wireB,
       exc |-> exc, lit |-> lit, last |-> lastOp, n |-> opCount]

NoOps == [set |-> 0, fill |-> 0, write |-> 0]

\* stripA.write(); stripB.write()
write(hw) == [hw EXCEPT !.wA = hw.A, !.wB = hw.B, !.last = "write",
                        !.n.write = @ + 1]

\* set_pixel writing the strips whatever auto_write says
set_pixel_alwayswrite(hw, location, rgb, boost, auto_write) ==
    LET mapping == grid_to_led(location)
    IN  IF hw.exc # "none" THEN hw
        ELSE IF mapping = Raised THEN [hw EXCEPT !.exc = "ValueError"]
        ELSE IF mapping = NoLed THEN hw
        ELSE LET c == scale(rgb, boost)
                 set == IF mapping[1] = "A"
                        THEN [hw EXCEPT !.A[mapping[2]] = c, !.last = "set",
                                        !.n.set = @ + 1]
                        ELSE [hw EXCEPT !.B[mapping[2]] = c, !.last = "set",
                                        !.n.set = @ + 1]
                 seen == IF c # Black
                         THEN [set EXCEPT !.lit = @ \cup {location}]
                         ELSE set
             IN  write(seen)

\* set_pixel (main.py:98-111)
set_pixel(hw, location, rgb, boost, auto_write) ==
    LET mapping == grid_to_led(location)
    IN  IF hw.exc # "none" THEN hw
        ELSE IF mapping = Raised THEN [hw EXCEPT !.exc = "ValueError"]
        ELSE IF mapping = NoLed THEN hw
        ELSE LET c == scale(rgb, boost)
                 set == IF mapping[1] = "A"
                        THEN [hw EXCEPT !.A[mapping[2]] = c, !.last = "set",
                                        !.n.set = @ + 1]
                        ELSE [hw EXCEPT !.B[mapping[2]] = c, !.last = "set",
                                        !.n.set = @ + 1]
                 seen == IF c # Black
                         THEN [set EXCEPT !.lit = @ \cup {location}]
                         ELSE set
             IN  IF auto_write THEN write(seen) ELSE seen

\* fill (main.py:40-46)
fill(hw, rgb) ==
    LET c == scale(rgb, DEFAULT_BOOST)
    IN  write([hw EXCEPT !.A = [i \in DOMAIN hw.A |-> c],
                         !.B = [i \in DOMAIN hw.B |-> c],
                         !.n.fill = @ + 1])

\* clear that blanks strip A only
clear_onlyA(hw) ==
    write([hw EXCEPT !.A = [i \in DOMAIN hw.A |-> Black], !.n.fill = @ + 1])

\* clear (main.py:48-49)
clear(hw) == [fill(hw, Black) EXCEPT !.last = "clear"]

\* a run of set_pixel calls, in order: each op is <<location, rgb, boost, auto_write>>
RECURSIVE set_pixels(_, _)
set_pixels(hw, ops) ==
    IF ops = <<>> THEN hw
    ELSE set_pixels(set_pixel(hw, Head(ops)[1], Head(ops)[2], Head(ops)[3], Head(ops)[4]),
                    Tail(ops))

AllBlack(buf) == \A i \in DOMAIN buf : buf[i] = Black


\* ------------------------------------------------------------------------
\* The fade registries (main.py:114-174)
\* ------------------------------------------------------------------------
FadeTotal == FADE_STEPS * FADE_INTERVAL

\* time.ticks_diff (the clock of a show stays far from the wrap-around)
ticks_diff(a, b) == a - b

NoEntries == [c \in {} |-> <<Black, 0>>]

\* registry[cell] = (color, start): the dict assignment of start_fade_animation
Put(registry, cell, entry) ==
    [c \in (DOMAIN registry) \cup {cell} |-> IF c = cell THEN entry ELSE registry[c]]

Remove(registry, cells) == [c \in (DOMAIN registry) \ cells |-> registry[c]]

\* start_fade_animation (main.py:114-121): points are <<row, col, color>>
RECURSIVE PutAll(_, _, _)
PutAll(registry, points, start) ==
    IF points = <<>> THEN registry
    ELSE PutAll(Put(registry, <<Head(points)[1], Head(points)[2]>>,
                    <<Head(points)[3], start>>),
                Tail(points), start)

\* main.py:139-146: the colour of a hit entry, elapsed < FadeTotal.
\* fade_factor = (FadeTotal - elapsed) / FadeTotal,
\* boost_factor = min(fade_factor * HIT_POINT_BRIGHTNESS_BOOST, 1.0)
boosted_color(color, elapsed) ==
    LET num == Min((FadeTotal - elapsed) * HIT_POINT_BRIGHTNESS_BOOST, 10 * FadeTotal)
    IN  << (color[1] * num) \div (10 * FadeTotal),
           (color[2] * num) \div (10 * FadeTotal),
           (color[3] * num) \div (10 * FadeTotal) >>

\* main.py:163-169: the colour of a companion entry, elapsed < FadeTotal
faded_color(color, elapsed) ==
    << (color[1] * (FadeTotal - elapsed)) \div FadeTotal,
       (color[2] * (FadeTotal - elapsed)) \div FadeTotal,
       (color[3] * (FadeTotal - elapsed)) \div FadeTotal >>

\* the end of the fade tested with > in place of >=
FadeDone_late(elapsed) == elapsed > FadeTotal

\* fade_progress >= 1.0, with fade_progress = min(1.0, elapsed / FadeTotal)
FadeDone(elapsed) == elapsed >= FadeTotal

\* the entry rendered without waiting for its start time
FadeWrite_nohold(kind, cell, entry, t) ==
    LET elapsed == ticks_diff(t, entry[2])
    IN  IF FadeDone(elapsed) THEN << <<cell, Black, DEFAULT_BOOST, TRUE>> >>
        ELSE IF kind = "hit"
        THEN << <<cell, boosted_color(entry[1], elapsed), DEFAULT_BOOST, TRUE>> >>
        ELSE << <<cell, faded_color(entry[1], elapsed), DEFAULT_BOOST, TRUE>> >>

\* main.py:130-147 and 154-170: what one entry makes process_active_points
\* pass to set_pixel; kind is "hit" or "vertical".  <<>> while the hold lasts.
FadeWrite(kind, cell, entry, t) ==
    LET elapsed == ticks_diff(t, entry[2])
    IN  IF elapsed < 0 THEN <<>>
        ELSE IF FadeDone(elapsed) THEN << <<cell, Black, DEFAULT_BOOST, TRUE>> >>
        ELSE IF kind = "hit"
        THEN << <<cell, boosted_color(entry[1], elapsed), DEFAULT_BOOST, TRUE>> >>
        ELSE << <<cell, faded_color(entry[1], elapsed), DEFAULT_BOOST, TRUE>> >>

\* the entries removed by main.py:149-151 and 172-174
Expired(registry, t) ==
    {c \in DOMAIN registry : /\ ticks_diff(t, registry[c][2]) >= 0
                             /\ FadeDone(ticks_diff(t, registry[c][2]))}

\* the set_pixel calls of one loop over a registry.  The dict is walked in
\* some order; the cells are distinct, so the order does not show.
RECURSIVE FadeWrites(_, _, _, _)
FadeWrites(kind, registry, cells, t) ==
    IF cells = {} THEN <<>>
    ELSE LET c == CHOOSE x \in cells : TRUE
         IN  FadeWrite(kind, c, registry[c], t)
             \o FadeWrites(kind, registry, cells \ {c}, t)

\* process_active_points (main.py:124-174) at time t
process_active_points(hw, hs, vs, t) ==
    [hw |-> set_pixels(hw, FadeWrites("hit", hs, DOMAIN hs, t)
                           \o FadeWrites("vertical", vs, DOMAIN vs, t)),
     hits |-> Remove(hs, Expired(hs, t)),
     verts |-> Remove(vs, Expired(vs, t))]


\* ------------------------------------------------------------------------
\* display_hit_effect (main.py:177-280)
\* ------------------------------------------------------------------------
\* main.py:180-186: the scan upwards from above_row.  A result is
\* [raised |-> a ValueError left grid_to_led, cells |-> the companion found]
RECURSIVE ScanAbove(_, _, _)
ScanAbove(above_row, col, color) ==
    IF ~(above_row >= 0) THEN [raised |-> FALSE, cells |-> <<>>]
    ELSE LET mapping == grid_to_led(<<above_row, col>>)
         IN  IF mapping = Raised THEN [raised |-> TRUE, cells |-> <<>>]
             ELSE IF mapping # NoLed
             THEN [raised |-> FALSE, cells |-> << <<above_row, col, color>> >>]
             ELSE ScanAbove(above_row - 1, col, color)

\* the scan downwards without its break: every cell below that has an LED
RECURSIVE ScanBelow_nobreak(_, _, _)
ScanBelow_nobreak(below_row, col, color) ==
    IF ~(below_row < ROWS) THEN [raised |-> FALSE, cells |-> <<>>]
    ELSE LET mapping == grid_to_led(<<below_row, col>>)
             rest == ScanBelow_nobreak(below_row + 1, col, color)
         IN  IF mapping = Raised THEN [raised |-> TRUE, cells |-> <<>>]
             ELSE IF mapping # NoLed
             THEN [raised |-> rest.raised,
                   cells |-> << <<below_row, col, color>> >> \o rest.cells]
             ELSE rest

\* main.py:188-194: the scan downwards from below_row
RECURSIVE ScanBelow(_, _, _)
ScanBelow(below_row, col, color) ==
    IF ~(below_row < ROWS) THEN [raised |-> FALSE, cells |-> <<>>]
    ELSE LET mapping == grid_to_led(<<below_row, col>>)
         IN  IF mapping = Raised THEN [raised |-> TRUE, cells |-> <<>>]
             ELSE IF mapping # NoLed
             THEN [raised |-> FALSE, cells |-> << <<below_row, col, color>> >>]
             ELSE ScanBelow(below_row + 1, col, color)

\* main.py:197-198: set_pixel((vr, vc), vc_color) for every companion
RECURSIVE VerticalOps(_)
VerticalOps(vertical_leds) ==
    IF vertical_leds = <<>> THEN <<>>
    ELSE << << <<Head(vertical_leds)[1], Head(vertical_leds)[2]>>,
               Head(vertical_leds)[3], DEFAULT_BOOST, TRUE >> >>
         \o VerticalOps(Tail(vertical_leds))

right_boundary == COLS - 1
left_boundary == 0

\* main.py:211-213
max_steps(col) == Max(right_boundary - col, col - left_boundary)

\* main.py:234-241 and 261-268: the wave pixels whose off_time has come are
\* set black without a write and popped; the others stay, in order
RECURSIVE AgedOut(_, _, _)
AgedOut(row, pixels, t) ==
    IF pixels = <<>> THEN <<>>
    ELSE IF ticks_diff(t, Head(pixels)[2]) >= 0
    THEN << << <<row, Head(pixels)[1]>>, Black, DEFAULT_BOOST, FALSE >> >>
         \o AgedOut(row, Tail(pixels), t)
    ELSE AgedOut(row, Tail(pixels), t)

RECURSIVE StillLit(_, _)
StillLit(pixels, t) ==
    IF pixels = <<>> THEN <<>>
    ELSE IF ticks_diff(t, Head(pixels)[2]) >= 0
    THEN StillLit(Tail(pixels), t)
    ELSE <<Head(pixels)>> \o StillLit(Tail(pixels), t)

\* the final pass blacking the hit's own column too
RECURSIVE FinalizeOps_all(_, _, _)
FinalizeOps_all(row, col, c) ==
    IF c >= COLS THEN <<>>
    ELSE << << <<row, c>>, Black, DEFAULT_BOOST, FALSE >> >>
         \o FinalizeOps_all(row, col, c + 1)

\* main.py:275-277: every column of the row but the hit's, black, no write
RECURSIVE FinalizeOps(_, _, _)
FinalizeOps(row, col, c) ==
    IF c >= COLS THEN <<>>
    ELSE (IF c # col THEN << << <<row, c>>, Black, DEFAULT_BOOST, FALSE >> >> ELSE <<>>)
         \o FinalizeOps(row, col, c + 1)

\* a sleep that returns at once
sleep_ms_atonce(ms) == clock

\* time.sleep_ms(ms): the clock after the sleep
sleep_ms(ms) == clock + ms + lag


\* ------------------------------------------------------------------------
\* Inputs
\* ------------------------------------------------------------------------
\* hit records [timestamp, row, col, color] as preprocess.py writes them:
\* the top left corner, a cell of strip B, a hole in the middle column, a
\* cell of strip A with holes above and below it and no LED further down;
\* then a record with row = ROWS and a record that lacks its colour
EventPool ==
    { <<0, 0, 0, Red>>, <<1, 1, 2, Blue>>, <<2, 3, 7, Red>>, <<3, 14, 13, Blue>>,
      <<4, 16, 4, Red>>, <<5, 5, 5>> }

\* two lists with a record that lacks its colour between two complete ones
AroundMalformed ==
    { << <<0, 0, 0, Red>>, <<5, 5, 5>>, <<1, 1, 2, Blue>> >>,
      << <<4, 16, 4, Red>>, <<5, 5, 5>>, <<1, 1, 2, Blue>> >> }

HitLists == UNION {[1..n -> EventPool] : n \in 0..MaxHits} \cup AroundMalformed

\* urandom.uniform(min_delay, max_delay) * 1000: the two ends of the range
Delays(corner) ==
    IF corner
    THEN {CORNER_MODE_MIN_DELAY * 1000, CORNER_MODE_MAX_DELAY * 1000}
    ELSE {NORMAL_MODE_MIN_DELAY * 1000, NORMAL_MODE_MAX_DELAY * 1000}

\* main.py:292-313: the lists processed_hits can become
RECURSIVE Schedules(_, _, _)
Schedules(hs, current_time, delays) ==
    IF hs = <<>> THEN {<<>>}
    ELSE IF Len(Head(hs)) < 4 THEN Schedules(Tail(hs), current_time, delays)
    ELSE UNION { { << <<current_time + d, Head(hs)[2], Head(hs)[3], Head(hs)[4]>> >> \o rest :
                     rest \in Schedules(Tail(hs), current_time + d, delays) } :
                 d \in delays }

\* ------------------------------------------------------------------------
\* Initial state: the module has been loaded up to main.py:342
\* ------------------------------------------------------------------------
NoCall == [fn |-> "none"]

Locals ==
    /\ processed_hits = <<>>
    /\ start_ms = 0
    /\ next_index = 0
    /\ now = 0
    /\ hit = <<0, 0, Black>>
    /\ step = 0
    /\ current_col = 0
    /\ active_wave_pixels = <<>>
    /\ lit = {}
    /\ dispatched = <<>>
    /\ expSteps = 0
    /\ refSteps = 0
    /\ reflected = {}
    /\ lastOp = "none"
    /\ opCount = NoOps
    /\ hitTime = 0

\* a buffer of n pixels, all black; and one with a pixel left on
Dark(n) == [i \in 0..(n - 1) |-> Black]
Stale(n) == [i \in 0..(n - 1) |-> IF i = 0 THEN scale(Red, DEFAULT_BOOST) ELSE Black]

\* The buffers are created black (main.py:51-52); the LEDs show what the
\* last run left on them.
Init ==
    /\ pc = "start"
    /\ exc = "none"
    /\ stripA = Dark(LED_NUM_A)
    /\ stripB = Dark(LED_NUM_B)
    /\ \/ wireA = Dark(LED_NUM_A) /\ wireB = Dark(LED_NUM_B)
       \/ wireA = Stale(LED_NUM_A) /\ wireB = Stale(LED_NUM_B)
    /\ active_hits = NoEntries
    /\ active_vertical_leds = NoEntries
    /\ clock = 0
    /\ lag \in {0, MaxLag}
    /\ fileExists \in BOOLEAN
    /\ hits \in (IF fileExists THEN HitLists ELSE {<<>>})
    /\ is_in_corner \in BOOLEAN
    /\ Locals
    /\ call = NoCall

\* ------------------------------------------------------------------------
\* Steps of the program
\* ------------------------------------------------------------------------
SetHw(hw) ==
    /\ stripA' = hw.A
    /\ stripB' = hw.B
    /\ wireA' = hw.wA
    /\ wireB' = hw.wB
    /\ exc' = hw.exc
    /\ lit' = hw.lit
    /\ lastOp' = hw.last
    /\ opCount' = hw.n

hwVars == <<stripA, stripB, wireA, wireB, exc, lit, lastOp, opCount>>
inputVars == <<lag, fileExists, hits, is_in_corner, call>>
waveVars == <<hit, step, current_col, active_wave_pixels, expSteps, refSteps, reflected,
              hitTime>>
loopVars == <<processed_hits, start_ms, next_index, now, dispatched>>
fadeVars == <<active_hits, active_vertical_leds>>

\* main.py:343: clear() in the try block
ClearAtStart ==
    /\ pc = "start"
    /\ SetHw(clear(Hw))
    /\ pc' = "play_hits"
    /\ UNCHANGED <<inputVars, waveVars, loopVars, fadeVars, clock>>

\* play_hits (main.py:335-340)
PlayHits ==
    /\ pc = "play_hits"
    /\ IF ~fileExists
       THEN exc' = "OSError" /\ pc' = "finally"
       ELSE exc' = exc /\ pc' = "play_visualization"
    /\ UNCHANGED <<stripA, stripB, wireA, wireB, lit, lastOp, opCount, inputVars,
                   waveVars, loopVars, fadeVars, clock>>

\* play_visualization up to the main loop (main.py:283-316)
PlayVisualization ==
    /\ pc = "play_visualization"
    /\ active_hits' = NoEntries
    /\ active_vertical_leds' = NoEntries
    /\ IF hits = <<>>
       THEN /\ pc' = "finally"
            /\ UNCHANGED <<processed_hits, start_ms, next_index>>
       ELSE /\ processed_hits' \in Schedules(hits, 0, Delays(is_in_corner))
            /\ start_ms' = clock
            /\ next_index' = 0
            /\ pc' = "loop"
    /\ UNCHANGED <<hwVars, inputVars, waveVars, now, dispatched, clock>>

\* main.py:318-321: the test of the main loop, now = ticks_ms(), process_active_points()
LoopHead ==
    /\ pc = "loop"
    /\ IF \/ next_index < Len(processed_hits)
          \/ DOMAIN active_hits # {}
          \/ DOMAIN active_vertical_leds # {}
       THEN LET r == process_active_points(Hw, active_hits, active_vertical_leds, clock)
            IN  /\ now' = clock
                /\ SetHw(r.hw)
                /\ active_hits' = r.hits
                /\ active_vertical_leds' = r.verts
                /\ pc' = IF r.hw.exc # "none" THEN "finally" ELSE "inner"
       ELSE /\ pc' = "clear"
            /\ UNCHANGED <<now, hwVars, fadeVars>>
    /\ UNCHANGED <<inputVars, waveVars, processed_hits, start_ms, next_index,
                   dispatched, clock>>

\* the inner loop dispatching without looking at the due-time
Due_nowait == next_index < Len(processed_hits)

\* main.py:323-324: the test of the inner loop, against the now of main.py:319
Due ==
    /\ next_index < Len(processed_hits)
    /\ ticks_diff(now, start_ms) >= processed_hits[next_index + 1][1]

InnerWhile ==
    /\ pc = "inner"
    /\ IF Due
       THEN /\ hit' = << processed_hits[next_index + 1][2],
                         processed_hits[next_index + 1][3],
                         processed_hits[next_index + 1][4] >>
            /\ pc' = "display_hit_effect"
       ELSE /\ hit' = hit
            /\ pc' = "sleep"
    /\ UNCHANGED <<hwVars, inputVars, loopVars, fadeVars, clock, step, current_col,
                   active_wave_pixels, expSteps, refSteps, reflected, hitTime>>


\* stripA.write(); stripB.write() on the way of a run that may have raised
commit(hw) == IF hw.exc # "none" THEN hw ELSE write(hw)

\* display_hit_effect up to the expansion loop (main.py:177-213)
DisplayHit ==
    /\ pc = "display_hit_effect"
    /\ LET row == hit[1]
           col == hit[2]
           color == hit[3]
           above == ScanAbove(row - 1, col, color)
           below == IF above.raised THEN above ELSE ScanBelow(row + 1, col, color)
           vertical_leds == above.cells \o below.cells
           hw2 == IF above.raised \/ below.raised
                  THEN [Hw EXCEPT !.exc = "ValueError"]
                  ELSE set_pixels(Hw, << << <<row, col>>, color,
                                            HIT_POINT_BRIGHTNESS_BOOST, TRUE >> >>
                                      \o VerticalOps(vertical_leds))
       IN  /\ SetHw(hw2)
           /\ dispatched' = Append(dispatched, next_index)
           /\ IF hw2.exc # "none"
              THEN /\ pc' = "finally"
                   /\ UNCHANGED <<fadeVars, active_wave_pixels, step, current_col>>
              ELSE /\ active_hits' = PutAll(active_hits, <<hit>>, clock + HIT_HOLD)
                   /\ active_vertical_leds' =
                          PutAll(active_vertical_leds, vertical_leds, clock + VERTICAL_HOLD)
                   /\ active_wave_pixels' = <<>>
                   /\ step' = 1
                   /\ current_col' = right_boundary
                   /\ pc' = IF max_steps(col) >= 1 THEN "expand" ELSE "reflect"
    /\ expSteps' = 0
    /\ refSteps' = 0
    /\ reflected' = {}
    /\ hitTime' = clock
    /\ UNCHANGED <<inputVars, hit, processed_hits, start_ms, next_index, now, clock>>

\* one wave pixel of this iteration: lit, and queued with its turn_off_time
WaveOp(row, c, color) == << <<row, c>>, color, DEFAULT_BOOST, TRUE >>
WaveEntry(c, t) == <<c, t + WAVE_LIGHT_DURATION>>

\* the early exit taken as soon as one side has left the grid
wave_break_either(left_col, right_col) ==
    left_col < left_boundary \/ right_col > right_boundary

\* main.py:247: the test of the early exit from the expansion loop
wave_break(left_col, right_col) ==
    left_col < left_boundary /\ right_col > right_boundary

\* one iteration of the expansion loop (main.py:215-248)
Expand ==
    /\ pc = "expand"
    /\ LET row == hit[1]
           col == hit[2]
           color == hit[3]
           r == process_active_points(Hw, active_hits, active_vertical_leds, clock)
           t == clock
           left_col == col - step
           right_col == col + step
           goLeft == left_col >= left_boundary
           goRight == right_col <= right_boundary
           lights == (IF goLeft THEN <<WaveOp(row, left_col, color)>> ELSE <<>>)
                     \o (IF goRight THEN <<WaveOp(row, right_col, color)>> ELSE <<>>)
           queued == active_wave_pixels
                     \o (IF goLeft THEN <<WaveEntry(left_col, t)>> ELSE <<>>)
                     \o (IF goRight THEN <<WaveEntry(right_col, t)>> ELSE <<>>)
           hw2 == commit(set_pixels(r.hw, lights \o AgedOut(row, queued, t)))
           leave == wave_break(left_col, right_col) \/ step = max_steps(col)
       IN  /\ SetHw(hw2)
           /\ active_hits' = r.hits
           /\ active_vertical_leds' = r.verts
           /\ IF hw2.exc # "none"
              THEN /\ pc' = "finally"
                   /\ UNCHANGED <<active_wave_pixels, step, current_col, clock, expSteps>>
              ELSE /\ active_wave_pixels' = StillLit(queued, t)
                   /\ clock' = sleep_ms(WAVE_LIGHT_SPREAD_DELAY)
                   /\ expSteps' = expSteps + 1
                   /\ step' = IF leave THEN step ELSE step + 1
                   /\ current_col' = right_boundary
                   /\ pc' = IF leave THEN "reflect" ELSE "expand"
    /\ UNCHANGED <<inputVars, loopVars, hit, refSteps, reflected, hitTime>>

\* one iteration of the reflection loop (main.py:250-273)
Reflect ==
    /\ pc = "reflect"
    /\ LET row == hit[1]
           col == hit[2]
           color == hit[3]
           r == process_active_points(Hw, active_hits, active_vertical_leds, clock)
           t == clock
           light == current_col # col
           queued == active_wave_pixels
                     \o (IF light THEN <<WaveEntry(current_col, t)>> ELSE <<>>)
           hw2 == commit(set_pixels(r.hw,
                      (IF light THEN <<WaveOp(row, current_col, color)>> ELSE <<>>)
                      \o AgedOut(row, queued, t)))
       IN  /\ SetHw(hw2)
           /\ active_hits' = r.hits
           /\ active_vertical_leds' = r.verts
           /\ IF hw2.exc # "none"
              THEN /\ pc' = "finally"
                   /\ UNCHANGED <<active_wave_pixels, current_col, clock, refSteps,
                                  reflected>>
              ELSE /\ active_wave_pixels' = StillLit(queued, t)
                   /\ clock' = sleep_ms(WAVE_LIGHT_SPREAD_DELAY)
                   /\ refSteps' = refSteps + 1
                   /\ reflected' = IF light THEN reflected \cup {current_col}
                                   ELSE reflected
                   /\ current_col' = current_col - 1
                   /\ pc' = IF current_col - 1 >= left_boundary
                            THEN "reflect" ELSE "finalize"
    /\ UNCHANGED <<inputVars, loopVars, hit, step, expSteps, hitTime>>

\* the end of display_hit_effect and the return to the inner loop
\* (main.py:275-280, 328)
Finalize ==
    /\ pc = "finalize"
    /\ LET hw2 == commit(set_pixels(Hw, FinalizeOps(hit[1], hit[2], 0)))
       IN  /\ SetHw(hw2)
           /\ IF hw2.exc # "none"
              THEN pc' = "finally" /\ next_index' = next_index
              ELSE pc' = "inner" /\ next_index' = next_index + 1
    /\ UNCHANGED <<inputVars, waveVars, fadeVars, processed_hits, start_ms, now,
                   dispatched, clock>>

\* The pause of the main loop (main.py:330).  While both registries are
\* empty and the next event is not due, an iteration of the loop changes
\* nothing but the clock; up to IdleRun such iterations, as many as end
\* before the event is due, are taken in one step.
IdleIterations ==
    LET per == IDLE_SLEEP + lag
        wait == processed_hits[next_index + 1][1] - ticks_diff(clock, start_ms)
    IN  IF /\ next_index < Len(processed_hits)
           /\ DOMAIN active_hits = {}
           /\ DOMAIN active_vertical_leds = {}
        THEN Max(1, Min(IdleRun, (wait + per - 1) \div per))
        ELSE 1

Sleep ==
    /\ pc = "sleep"
    /\ clock' = clock + IdleIterations * (IDLE_SLEEP + lag)
    /\ pc' = "loop"
    /\ UNCHANGED <<hwVars, inputVars, waveVars, loopVars, fadeVars>>

\* main.py:332: clear() after the main loop, and the return
ClearAtEnd ==
    /\ pc = "clear"
    /\ SetHw(clear(Hw))
    /\ pc' = "finally"
    /\ UNCHANGED <<inputVars, waveVars, loopVars, fadeVars, clock>>

\* the program without the clear() of its finally block
FinallyWithoutClear ==
    /\ pc = "finally"
    /\ pc' = "done"
    /\ UNCHANGED <<hwVars, inputVars, waveVars, loopVars, fadeVars, clock>>

\* main.py:349-350: clear() in the finally block; an exception goes on to
\* end the program
FinallyClear ==
    /\ pc = "finally"
    /\ SetHw(clear(Hw))
    /\ pc' = "done"
    /\ UNCHANGED <<inputVars, waveVars, loopVars, fadeVars, clock>>

Next ==
    \/ ClearAtStart
    \/ PlayHits
    \/ PlayVisualization
    \/ LoopHead
    \/ InnerWhile
    \/ DisplayHit
    \/ Expand
    \/ Reflect
    \/ Finalize
    \/ Sleep
    \/ ClearAtEnd
    \/ FinallyClear

Spec == Init /\ [][Next]_vars


\* ------------------------------------------------------------------------
\* play_visualization called on its own: the buffers hold what the caller
\* left in them
\* ------------------------------------------------------------------------
InitPV ==
    /\ pc = "play_visualization"
    /\ exc = "none"
    /\ \/ stripA = Dark(LED_NUM_A) /\ stripB = Dark(LED_NUM_B)
       \/ stripA = Stale(LED_NUM_A) /\ stripB = Stale(LED_NUM_B)
    /\ wireA = stripA
    /\ wireB = stripB
    /\ active_hits = NoEntries
    /\ active_vertical_leds = NoEntries
    /\ clock = 0
    /\ lag = 0
    /\ fileExists = TRUE
    /\ hits \in HitLists
    /\ is_in_corner \in BOOLEAN
    /\ Locals
    /\ call = NoCall

NextPV ==
    \/ PlayVisualization
    \/ LoopHead
    \/ InnerWhile
    \/ DisplayHit
    \/ Expand
    \/ Reflect
    \/ Finalize
    \/ Sleep
    \/ ClearAtEnd

SpecPV == InitPV /\ [][NextPV]_vars

\* ------------------------------------------------------------------------
\* The functions called on their own, on arguments drawn from bounded sets
\* ------------------------------------------------------------------------
GridCells == (0..(ROWS - 1)) \X (0..(COLS - 1))
\* the grid and one ring of cells around it
ProbeCells == ((0 - 1)..ROWS) \X ((0 - 1)..COLS)

Channels == {0, 1, 19, 20, 127, 128, 254, 255}
\* boosts in tenths: none, small, the two the program uses (1.0 and 10.0),
\* around the cap and beyond it
Boosts == {0, 1, 5, DEFAULT_BOOST, HIT_POINT_BRIGHTNESS_BOOST, 199, 200, 201, MaxBoost}
FadeColors == {Red, Blue, <<255, 255, 255>>, <<1, 128, 254>>}
\* a cell of strip A, a cell of strip B, a hole
FadeCells == {<<0, 0>>, <<1, 2>>, <<3, 7>>}

GridCalls ==
    { [fn |-> "grid_to_led", a |-> a, b |-> b, done |-> FALSE, out |-> <<>>] :
          a \in ProbeCells, b \in GridCells }

ScaleCalls ==
    { [fn |-> "scale", rgb |-> <<r, g, b>>, boost |-> boost,
       done |-> FALSE, out |-> <<>>] :
          r \in Channels, g \in Channels, b \in Channels, boost \in Boosts }

FadeCalls ==
    { [fn |-> "process_active_points", kind |-> kind, cell |-> cell,
       color |-> color, done |-> FALSE] :
          kind \in {"hit", "vertical"}, cell \in FadeCells, color \in FadeColors }

\* buffers a call can start from: black, one pixel left on, every pixel on
Full(n) == [i \in 0..(n - 1) |-> <<255, 255, 255>>]

Buffer(kind, n) ==
    IF kind = "dark" THEN Dark(n)
    ELSE IF kind = "stale" THEN Stale(n)
    ELSE Full(n)

BufferKinds == {"dark", "stale", "full"}

\* clear() called twice in a row; first is the pair of buffers its first
\* call left
ClearCalls ==
    { [fn |-> "clear", A |-> a, B |-> b, wA |-> wa, wB |-> wb, n |-> 0, first |-> <<>>] :
          a \in BufferKinds, b \in BufferKinds, wa \in BufferKinds, wb \in BufferKinds }

\* set_pixel called once; before is the buffers and LEDs it found
SetPixelCalls ==
    { [fn |-> "set_pixel", cell |-> cell, rgb |-> rgb, boost |-> boost,
       auto_write |-> auto_write, from |-> from, done |-> FALSE, before |-> <<>>] :
          cell \in GridCells, rgb \in {Red, <<1, 128, 254>>},
          boost \in {DEFAULT_BOOST, HIT_POINT_BRIGHTNESS_BOOST},
          auto_write \in BOOLEAN, from \in {"dark", "full"} }

\* grid_to_led asked, over the whole grid, for the cells of one LED of a strip
LedCalls ==
    { [fn |-> "cells_of_led", strip |-> "A", index |-> i, done |-> FALSE, out |-> {}] :
          i \in 0..(LED_NUM_A - 1) }
    \cup
    { [fn |-> "cells_of_led", strip |-> "B", index |-> i, done |-> FALSE, out |-> {}] :
          i \in 0..(LED_NUM_B - 1) }

AtRest ==
    /\ pc = "call"
    /\ exc = "none"
    /\ lag = 0
    /\ fileExists = FALSE
    /\ hits = <<>>
    /\ is_in_corner = FALSE
    /\ Locals

\* For process_active_points the state is the one display_hit_effect leaves
\* at time 0 for one cell (main.py:196-202): the pixel set, the entry
\* registered; the call comes at any time up to MaxTime.
InitFn ==
    /\ call \in GridCalls \cup ScaleCalls \cup FadeCalls \cup ClearCalls \cup SetPixelCalls
                \cup LedCalls
    /\ IF call.fn = "process_active_points"
       THEN LET boost == IF call.kind = "hit"
                         THEN HIT_POINT_BRIGHTNESS_BOOST ELSE DEFAULT_BOOST
                hold == IF call.kind = "hit" THEN HIT_HOLD ELSE VERTICAL_HOLD
                entry == Put(NoEntries, call.cell, <<call.color, hold>>)
                hw == set_pixel([A |-> Dark(LED_NUM_A), B |-> Dark(LED_NUM_B),
                                 wA |-> Dark(LED_NUM_A), wB |-> Dark(LED_NUM_B),
                                 exc |-> "none", lit |-> {}, last |-> "none",
                                 n |-> NoOps],
                                call.cell, call.color, boost, TRUE)
            IN  /\ stripA = hw.A
                /\ stripB = hw.B
                /\ wireA = stripA
                /\ wireB = stripB
                /\ active_hits = IF call.kind = "hit" THEN entry ELSE NoEntries
                /\ active_vertical_leds = IF call.kind = "hit" THEN NoEntries ELSE entry
                /\ clock \in 0..MaxTime
       ELSE /\ IF call.fn = "clear"
               THEN /\ stripA = Buffer(call.A, LED_NUM_A)
                    /\ stripB = Buffer(call.B, LED_NUM_B)
                    /\ wireA = Buffer(call.wA, LED_NUM_A)
                    /\ wireB = Buffer(call.wB, LED_NUM_B)
               ELSE IF call.fn = "set_pixel"
               THEN /\ stripA = Buffer(call.from, LED_NUM_A)
                    /\ stripB = Buffer(call.from, LED_NUM_B)
                    /\ wireA = Dark(LED_NUM_A)
                    /\ wireB = Dark(LED_NUM_B)
               ELSE /\ stripA = Dark(LED_NUM_A)
                    /\ stripB = Dark(LED_NUM_B)
                    /\ wireA = stripA
                    /\ wireB = stripB
            /\ active_hits = NoEntries
            /\ active_vertical_leds = NoEntries
            /\ clock = 0
    /\ AtRest

CallGridToLed ==
    /\ pc = "call"
    /\ call.fn = "grid_to_led"
    /\ ~call.done
    /\ call' = [call EXCEPT !.done = TRUE,
                            !.out = <<grid_to_led(call.a), grid_to_led(call.b)>>]
    /\ UNCHANGED <<pc, hwVars, lag, fileExists, hits, is_in_corner, waveVars, loopVars,
                   fadeVars, clock>>

CallScale ==
    /\ pc = "call"
    /\ call.fn = "scale"
    /\ ~call.done
    /\ call' = [call EXCEPT !.done = TRUE, !.out = scale(call.rgb, call.boost)]
    /\ UNCHANGED <<pc, hwVars, lag, fileExists, hits, is_in_corner, waveVars, loopVars,
                   fadeVars, clock>>

CallProcessActivePoints ==
    /\ pc = "call"
    /\ call.fn = "process_active_points"
    /\ ~call.done
    /\ LET r == process_active_points(Hw, active_hits, active_vertical_leds, clock)
       IN  /\ SetHw(r.hw)
           /\ active_hits' = r.hits
           /\ active_vertical_leds' = r.verts
    /\ call' = [call EXCEPT !.done = TRUE]
    /\ UNCHANGED <<pc, lag, fileExists, hits, is_in_corner, waveVars, loopVars, clock>>

CallClear ==
    /\ pc = "call"
    /\ call.fn = "clear"
    /\ call.n < 2
    /\ LET hw == clear(Hw)
       IN  /\ SetHw(hw)
           /\ call' = [call EXCEPT !.n = @ + 1,
                                   !.first = IF call.n = 0 THEN <<hw.A, hw.B>> ELSE @]
    /\ UNCHANGED <<pc, lag, fileExists, hits, is_in_corner, waveVars, loopVars, fadeVars,
                   clock>>

CallSetPixel ==
    /\ pc = "call"
    /\ call.fn = "set_pixel"
    /\ ~call.done
    /\ SetHw(set_pixel(Hw, call.cell, call.rgb, call.boost, call.auto_write))
    /\ call' = [call EXCEPT !.done = TRUE,
                            !.before = <<stripA, stripB, wireA, wireB>>]
    /\ UNCHANGED <<pc, lag, fileExists, hits, is_in_corner, waveVars, loopVars, fadeVars,
                   clock>>

CallCellsOfLed ==
    /\ pc = "call"
    /\ call.fn = "cells_of_led"
    /\ ~call.done
    /\ call' = [call EXCEPT !.done = TRUE,
                            !.out = { cell \in GridCells :
                                        grid_to_led(cell) = <<call.strip, call.index>> }]
    /\ UNCHANGED <<pc, hwVars, lag, fileExists, hits, is_in_corner, waveVars, loopVars,
                   fadeVars, clock>>

NextFn ==
    \/ CallCellsOfLed
    \/ CallGridToLed
    \/ CallScale
    \/ CallProcessActivePoints
    \/ CallClear
    \/ CallSetPixel

SpecFn == InitFn /\ [][NextFn]_vars


\* ------------------------------------------------------------------------
\* Properties
\* ------------------------------------------------------------------------
\* the buffer entry and the LED of a cell that has one
Pixel(cell) ==
    IF grid_to_led(cell)[1] = "A" THEN stripA[grid_to_led(cell)[2]]
    ELSE stripB[grid_to_led(cell)[2]]

OnWire(cell) ==
    IF grid_to_led(cell)[1] = "A" THEN wireA[grid_to_led(cell)[2]]
    ELSE wireB[grid_to_led(cell)[2]]

HasLed(cell) == grid_to_led(cell)[1] \in {"A", "B"}

GridDark ==
    /\ AllBlack(stripA) /\ AllBlack(stripB)
    /\ wireA = stripA /\ wireB = stripB

\* the cell of the i-th call of display_hit_effect
DispatchedCell(i) ==
    << processed_hits[dispatched[i] + 1][2], processed_hits[dispatched[i] + 1][3] >>

\* C1: an event whose row or col lies outside the grid is dispatched
\* without an exception, no pixel is set for its cell, and the show goes on
\* to dispatch the events after it.
C1_OutOfRangeIsDropped ==
    (\E i \in DOMAIN dispatched : ~InRange(DispatchedCell(i))) =>
        /\ exc = "none"
        /\ \A c \in lit : InRange(c)
        /\ pc = "done" => Len(dispatched) = Len(processed_hits)

\* C2: two distinct cells of the grid that both have an LED never get the
\* same (strip, index) from grid_to_led.
C2_Injective ==
    (/\ call.fn = "grid_to_led" /\ call.done
     /\ InRange(call.a) /\ InRange(call.b) /\ call.a # call.b
     /\ call.out[1] # NoLed /\ call.out[2] # NoLed)
    => call.out[1] # call.out[2]

\* two distinct cells of strip B, one on a reversed b-row, both mapped
C2_Witness ==
    /\ call.fn = "grid_to_led" /\ call.done
    /\ call.a = <<3, 14>> /\ call.b = <<1, 14>>
    /\ call.out[1][1] = "B" /\ call.out[2][1] = "B"
    /\ call.out[1] # call.out[2]

\* C3: for a cell of the grid, grid_to_led returns None exactly when row
\* and col are both odd; an even row maps to strip A, an odd row with an
\* even column to strip B.
C3_HolesAndStrips ==
    (call.fn = "grid_to_led" /\ call.done /\ InRange(call.a)) =>
        /\ (call.out[1] = NoLed) <=> (call.a[1] % 2 = 1 /\ call.a[2] % 2 = 1)
        /\ call.a[1] % 2 = 0 => call.out[1][1] = "A"
        /\ (call.a[1] % 2 = 1 /\ call.a[2] % 2 = 0) => call.out[1][1] = "B"

\* a hole has been asked for and reported
C3_Witness ==
    /\ call.fn = "grid_to_led" /\ call.done
    /\ call.a = <<15, 13>>
    /\ call.out[1] = NoLed

\* C4: however the show ends (to its end, on a missing file, on an
\* exception), the last pixel operation is a full clear: both buffers black
\* and both strips written.
C4_ExitCleared ==
    pc = "done" => lastOp = "clear" /\ GridDark

\* a show that lit pixels for one hit and then ended on an exception
C4_Witness ==
    /\ pc = "done"
    /\ exc = "ValueError"
    /\ lit # {}

\* C5: hits are dispatched one at a time in list order, by non-decreasing
\* due-time, each well-formed event exactly once, and the wave of a hit is
\* over (its row black but for the hit cell, and written) when
\* display_hit_effect starts for the next one.
C5_InOrderExactlyOnce ==
    /\ \A i \in DOMAIN dispatched : dispatched[i] = i - 1
    /\ \A i \in DOMAIN dispatched :
           i > 1 => processed_hits[dispatched[i - 1] + 1][1]
                        <= processed_hits[dispatched[i] + 1][1]
    /\ (pc = "display_hit_effect" /\ dispatched # <<>>) =>
           \A c \in 0..(COLS - 1) :
               LET prev == DispatchedCell(Len(dispatched))
               IN  (c # prev[2] /\ HasLed(<<prev[1], c>>)) =>
                       /\ Pixel(<<prev[1], c>>) = Black
                       /\ OnWire(<<prev[1], c>>) = Black
    /\ (pc = "done" /\ exc # "OSError") => Len(dispatched) = Len(processed_hits)

\* C6: when play_visualization returns normally, whatever the buffers held
\* when it was called, every event has been dispatched, both registries
\* are empty and every pixel of both strips is black and written.
C6_ReturnsCleared ==
    (pc = "finally" /\ exc = "none") =>
        /\ Len(dispatched) = Len(processed_hits)
        /\ DOMAIN active_hits = {}
        /\ DOMAIN active_vertical_leds = {}
        /\ GridDark

\* the nearest cells with an LED above and below a cell, in its column
NearestAbove(cell) ==
    { <<r, cell[2]>> : r \in { r \in 0..(cell[1] - 1) :
          /\ HasLed(<<r, cell[2]>>)
          /\ \A q \in (r + 1)..(cell[1] - 1) : ~HasLed(<<q, cell[2]>>) } }

NearestBelow(cell) ==
    { <<r, cell[2]>> : r \in { r \in (cell[1] + 1)..(ROWS - 1) :
          /\ HasLed(<<r, cell[2]>>)
          /\ \A q \in (cell[1] + 1)..(r - 1) : ~HasLed(<<q, cell[2]>>) } }

RowOf(cell) == { <<cell[1], c>> : c \in 0..(COLS - 1) }

OneHitShow ==
    /\ fileExists
    /\ Len(hits) = 1
    /\ Len(hits[1]) = 4
    /\ InRange(<<hits[1][2], hits[1][3]>>)

\* C7: a show of one event in the grid dispatches exactly one hit; no cell
\* is ever given a colour but the hit cell, the nearest cell with an LED
\* above it and below it in its column, and the cells of its row; the show
\* ends with the whole grid black.
C7_SingleHit ==
    OneHitShow =>
        LET cell == <<hits[1][2], hits[1][3]>>
        IN  /\ lit \subseteq {cell} \cup NearestAbove(cell) \cup NearestBelow(cell)
                                \cup RowOf(cell)
            /\ Len(dispatched) <= 1
            /\ pc = "done" => /\ exc = "none"
                              /\ dispatched = <<0>>
                              /\ GridDark

\* the show of [(0, 0, 0, [255,0,0])], profile normal, at its end: the hit
\* cell, its one companion and the far end of row 0 have been lit
C7_Witness ==
    /\ pc = "done"
    /\ hits = << <<0, 0, 0, Red>> >>
    /\ ~is_in_corner
    /\ dispatched = <<0>>
    /\ {<<0, 0>>, <<1, 0>>, <<0, 14>>} \subseteq lit
    /\ GridDark

\* C8: the expansion of a hit at column col runs exactly
\* max(col, COLS-1-col) iterations; the reflection runs exactly COLS
\* iterations, from column COLS-1 down to 0, and lights every column but col.
C8_StepCounts ==
    /\ pc = "expand" => expSteps < Max(hit[2], COLS - 1 - hit[2])
    /\ pc \in {"reflect", "finalize"} => expSteps = Max(hit[2], COLS - 1 - hit[2])
    /\ pc = "reflect" => /\ refSteps < COLS
                         /\ current_col = COLS - 1 - refSteps
    /\ pc = "finalize" => /\ refSteps = COLS
                          /\ reflected = (0..(COLS - 1)) \ {hit[2]}

\* a wave from the middle column, where both sides end together, has run
\* both phases
C8_Witness ==
    /\ pc = "finalize"
    /\ hit[2] = 7
    /\ expSteps = 7
    /\ refSteps = COLS

\* C9: process_active_points writes the cell of an entry whose progress
\* has reached 1 exactly black and removes the entry; for a progress in
\* [0, 1) every channel it writes is an integer in 0..255.
C9_FadeRange ==
    (call.fn = "process_active_points" /\ call.done) =>
        LET hold == IF call.kind = "hit" THEN HIT_HOLD ELSE VERTICAL_HOLD
            registry == IF call.kind = "hit" THEN active_hits ELSE active_vertical_leds
            elapsed == clock - hold
        IN  /\ elapsed >= FADE_STEPS * FADE_INTERVAL =>
                /\ call.cell \notin DOMAIN registry
                /\ HasLed(call.cell) => /\ Pixel(call.cell) = Black
                                        /\ OnWire(call.cell) = Black
            /\ (0 <= elapsed /\ elapsed < FADE_STEPS * FADE_INTERVAL) =>
                /\ call.cell \in DOMAIN registry
                /\ \A i \in 1..3 :
                       /\ boosted_color(call.color, elapsed)[i] \in 0..255
                       /\ faded_color(call.color, elapsed)[i] \in 0..255
                /\ HasLed(call.cell) =>
                       /\ \A i \in 1..3 : Pixel(call.cell)[i] \in 0..255
                       /\ OnWire(call.cell) = Pixel(call.cell)

\* a hit entry at the very end of its fade: written black, removed
C9_Witness ==
    /\ call.fn = "process_active_points" /\ call.done
    /\ call.kind = "hit"
    /\ call.cell = <<0, 0>>
    /\ clock = HIT_HOLD + FADE_STEPS * FADE_INTERVAL
    /\ Pixel(<<0, 0>>) = Black
    /\ DOMAIN active_hits = {}

\* C10: scale returns three integer channels in 0..255 for channels in
\* 0..255 and any boost >= 0.
C10_ScaleRange ==
    (call.fn = "scale" /\ call.done) =>
        \A i \in 1..3 : call.out[i] \in 0..255

\* a boost beyond the cap: the channel comes back unchanged
C10_Witness ==
    /\ call.fn = "scale" /\ call.done
    /\ call.boost > 200
    /\ call.rgb = <<255, 128, 1>>
    /\ call.out = <<255, 128, 1>>

\* C11: when hits.json is absent, the OSError of play_hits is raised with no
\* pixel of either strip set and no strip written since the program started.
C11_RaisedBeforeAnyPixel ==
    exc = "OSError" =>
        /\ opCount = NoOps
        /\ lastOp = "none"

\* the records of hits.json that main.py:305 lets through
WellFormed(hs) == SelectSeq(hs, LAMBDA h : Len(h) >= 4)

Preprocessed == pc \notin {"start", "play_hits", "play_visualization"}

\* C12: a record with fewer than 4 fields is skipped by the preprocessing
\* and is not fatal: it gets no due-time and consumes no random delay, it
\* is never dispatched, and every well-formed event before and after it in
\* the list is still dispatched, in order.
C12_MalformedSkipped ==
    (Preprocessed /\ \E i \in DOMAIN hits : Len(hits[i]) < 4) =>
        LET wf == WellFormed(hits)
            bounds == Delays(is_in_corner)
            lo == CHOOSE d \in bounds : \A e \in bounds : d <= e
            hi == CHOOSE d \in bounds : \A e \in bounds : d >= e
        IN  /\ Len(processed_hits) = Len(wf)
            /\ \A i \in DOMAIN processed_hits :
                   /\ processed_hits[i][2] = wf[i][2]
                   /\ processed_hits[i][3] = wf[i][3]
                   /\ processed_hits[i][4] = wf[i][4]
                   /\ processed_hits[i][1] >= i * lo
                   /\ processed_hits[i][1] <= i * hi
            /\ \A i \in DOMAIN dispatched : dispatched[i] = i - 1
            /\ pc = "done" => Len(dispatched) = Len(wf)

\* C13: grid_to_led raises ValueError for a row or column outside the grid
\* and only then: it never returns None (a hole) for a cell outside the
\* grid and never raises for a cell of the grid.
C13_RangeErrorNotHole ==
    (call.fn = "grid_to_led" /\ call.done) =>
        LET row == call.a[1]
            col == call.a[2]
            inside == row >= 0 /\ row <= 15 /\ col >= 0 /\ col <= 14
            result == call.out[1]
        IN  /\ inside => result # Raised
            /\ ~inside => (result = Raised /\ result # NoLed)

C13_Witness ==
    /\ call.fn = "grid_to_led"
    /\ call.done
    /\ call.a[1] = ROWS
    /\ call.a[2] % 2 = 1
    /\ call.out[1] = Raised
    /\ call.out[2] = NoLed

\* C14: clear() is idempotent: after one call every pixel of strip A and
\* strip B is (0,0,0) and both strips have been written, and a second call
\* leaves both buffers as the first left them, whatever the buffers and the
\* LEDs held before.
C14_ClearIdempotent ==
    (call.fn = "clear" /\ call.n >= 1) =>
        /\ AllBlack(stripA) /\ AllBlack(stripB)
        /\ wireA = stripA /\ wireB = stripB
        /\ opCount.write = call.n
        /\ <<stripA, stripB>> = call.first

C14_Witness ==
    /\ call.fn = "clear"
    /\ call.n = 2
    /\ call.A = "full" /\ call.B = "stale"
    /\ call.wA = "stale" /\ call.wB = "full"
    /\ GridDark

\* C17: set_pixel on a hole of the grid leaves both buffers unchanged and
\* writes no strip; on a cell with an LED it changes the one buffer entry
\* that grid_to_led names, on that strip, and nothing else; with
\* auto_write = False it writes no strip.
C17_SetPixelFrame ==
    (call.fn = "set_pixel" /\ call.done) =>
        LET mapping == grid_to_led(call.cell)
            c == scale(call.rgb, call.boost)
            oldA == call.before[1]
            oldB == call.before[2]
        IN  /\ mapping = NoLed =>
                   /\ stripA = oldA /\ stripB = oldB
                   /\ wireA = call.before[3] /\ wireB = call.before[4]
                   /\ opCount = NoOps
            /\ mapping[1] = "A" =>
                   /\ stripA = [oldA EXCEPT ![mapping[2]] = c]
                   /\ stripB = oldB
                   /\ opCount.set = 1
            /\ mapping[1] = "B" =>
                   /\ stripB = [oldB EXCEPT ![mapping[2]] = c]
                   /\ stripA = oldA
                   /\ opCount.set = 1
            /\ ~call.auto_write =>
                   /\ wireA = call.before[3] /\ wireB = call.before[4]
                   /\ opCount.write = 0
            /\ exc = "none"

C17_Witness ==
    /\ call.fn = "set_pixel"
    /\ call.done
    /\ ~call.auto_write
    /\ call.from = "full"
    /\ grid_to_led(call.cell)[1] = "B"
    /\ stripB # call.before[2]
    /\ wireB # stripB

\* C15: a cell of the hit's row that the expansion or the reflection has
\* set to the wave colour at time t is not set black by an aging step
\* before t + WAVE_LIGHT_DURATION: as long as its turn-off time had not
\* come at the last aging step, the cell still shows the wave colour.
C15_LitForWholeDuration ==
    pc \in {"expand", "reflect", "finalize"} =>
        \A i \in DOMAIN active_wave_pixels :
            LET cell == <<hit[1], active_wave_pixels[i][1]>>
            IN  HasLed(cell) => Pixel(cell) = scale(hit[3], DEFAULT_BOOST)

\* C16: when display_hit_effect returns, every cell of the hit's row but
\* the one in the hit's column is black in the buffers and on the LEDs,
\* whichever wave cells were still lit; the final pass assigns one pixel
\* per such cell and does not write the cell of the hit's column.
C16_RowClearedOnReturn ==
    [][ (pc = "finalize" /\ pc' = "inner") =>
            LET others == { c \in 0..(COLS - 1) : c # hit[2] /\ HasLed(<<hit[1], c>>) }
            IN  /\ \A c \in others : /\ Pixel(<<hit[1], c>>)' = Black
                                     /\ OnWire(<<hit[1], c>>)' = Black
                /\ opCount'.set = opCount.set + Cardinality(others)
                /\ opCount'.fill = opCount.fill
                /\ HasLed(<<hit[1], hit[2]>>) =>
                       Pixel(<<hit[1], hit[2]>>)' = Pixel(<<hit[1], hit[2]>>) ]_vars

\* display_hit_effect has returned from a wave whose last cells were still
\* queued, lit, when the final pass began
C16_Witness ==
    /\ pc = "inner"
    /\ next_index = Len(dispatched)
    /\ \E i \in DOMAIN active_wave_pixels :
           LET cell == <<hit[1], active_wave_pixels[i][1]>>
           IN  /\ HasLed(cell)
               /\ cell \in lit
               /\ Pixel(cell) = Black
               /\ OnWire(cell) = Black

\* the time of the last call of process_active_points in the wave under
\* way, once a step of the wave has run: one sleep before now
LastTick == clock - WAVE_LIGHT_SPREAD_DELAY - lag

\* C18: the fade entry of a hit starts 100 ms after the dispatch, those of
\* its companions 50 ms after it; as long as process_active_points has not
\* been called at or after that time the entry stays in its registry and
\* the pixel stays at scale(color, HIT_POINT_BRIGHTNESS_BOOST) for the hit
\* cell and at scale(color) for a companion, through the ticks and the wave
\* steps in between.
C18_HeldUntilFadeStart ==
    pc \in {"expand", "reflect"} =>
        LET cell == <<hit[1], hit[2]>>
            color == hit[3]
            ticked == expSteps + refSteps >= 1
        IN  /\ (~ticked \/ LastTick < hitTime + 100) =>
                   /\ cell \in DOMAIN active_hits
                   /\ active_hits[cell] = <<color, hitTime + 100>>
                   /\ HasLed(cell) =>
                          /\ Pixel(cell) = scale(color, HIT_POINT_BRIGHTNESS_BOOST)
                          /\ OnWire(cell) = scale(color, HIT_POINT_BRIGHTNESS_BOOST)
            /\ (~ticked \/ LastTick < hitTime + 50) =>
                   \A v \in NearestAbove(cell) \cup NearestBelow(cell) :
                       /\ v \in DOMAIN active_vertical_leds
                       /\ active_vertical_leds[v] = <<color, hitTime + 50>>
                       /\ Pixel(v) = scale(color, DEFAULT_BOOST)
                       /\ OnWire(v) = scale(color, DEFAULT_BOOST)

\* two steps of the wave have run, the second with its tick 80 ms after
\* the dispatch, and the hit cell is still at its boosted colour
C18_Witness ==
    /\ pc = "expand"
    /\ expSteps = 2
    /\ LastTick = hitTime + 80
    /\ HasLed(<<hit[1], hit[2]>>)
    /\ NearestBelow(<<hit[1], hit[2]>>) # {}
    /\ <<hit[1], hit[2]>> \in DOMAIN active_hits
    /\ Pixel(<<hit[1], hit[2]>>) = scale(hit[3], HIT_POINT_BRIGHTNESS_BOOST)

\* C19: the due-times are the running sum of one delay per event, each
\* within the range of the profile (2000..5000 ms normal, 5000..10000 ms
\* corner), whatever the timestamps of the events: they increase strictly,
\* with gaps inside the range; and no event is dispatched before its
\* due-time has passed since start_ms (it may be dispatched later).
C19_SyntheticDueTimes ==
    Preprocessed =>
        LET lo == IF is_in_corner THEN 5000 ELSE 2000
            hi == IF is_in_corner THEN 10000 ELSE 5000
        IN  /\ \A i \in DOMAIN processed_hits :
                   LET before == IF i = 1 THEN 0 ELSE processed_hits[i - 1][1]
                       gap == processed_hits[i][1] - before
                   IN  gap > 0 /\ gap >= lo /\ gap <= hi
            /\ dispatched # <<>> =>
                   hitTime - start_ms >= processed_hits[Len(dispatched)][1]

\* the second event of a list, due 2000 ms after the first, is dispatched
\* late: the wave of the first was still running when it fell due
C19_Witness ==
    /\ Len(dispatched) = 2
    /\ pc = "expand"
    /\ processed_hits[2][1] - processed_hits[1][1] = 2000
    /\ hitTime - start_ms > processed_hits[2][1]
    /\ hits[2][1] * 1000 < processed_hits[1][1]

FadesOver == DOMAIN active_hits = {} /\ DOMAIN active_vertical_leds = {}

\* C20: with sleeps that last at least as long as asked, a wave has at
\* least 22 steps of 80 ms and outlasts the fades of its hit (100 ms of
\* hold and 400 ms of fade): both registries are empty when
\* display_hit_effect returns, so they are empty when the next hit is
\* dispatched (no live entry is overwritten) and the test of the main loop
\* fails the first time it is made after the wave of the last hit.
C20_FadesEndWithinWave ==
    /\ pc = "finalize" => /\ expSteps + refSteps >= 22
                          /\ clock - hitTime >= 22 * 80
                          /\ clock - hitTime >= 100 + 400
                          /\ FadesOver
    /\ pc \in {"inner", "sleep", "display_hit_effect"} => FadesOver
    /\ (pc = "loop" /\ next_index = Len(processed_hits)) => FadesOver

\* the show has left the main loop 5 ms after the shortest wave, that of a
\* hit in the middle column
C20_Witness ==
    /\ pc = "clear"
    /\ dispatched # <<>>
    /\ hit[2] = 7
    /\ expSteps + refSteps = 22
    /\ clock - hitTime = 22 * 80 + 5
    /\ FadesOver

\* C21: for a cell of the grid that has an LED, the index grid_to_led
\* returns lies inside the buffer of its strip, 0..119 for strip A and 0..63
\* for strip B, so set_pixel never indexes outside a buffer; and every LED
\* of either strip is the image of exactly one cell of the grid.
C21_IndexInsideStrip ==
    /\ (call.fn = "grid_to_led" /\ call.done) =>
           LET mapping == call.out[1]
           IN  /\ mapping[1] = "A" => /\ mapping[2] >= 0 /\ mapping[2] < 120
                                      /\ mapping[2] \in DOMAIN stripA
               /\ mapping[1] = "B" => /\ mapping[2] >= 0 /\ mapping[2] < 64
                                      /\ mapping[2] \in DOMAIN stripB
    /\ (call.fn = "set_pixel" /\ call.done) =>
           LET mapping == grid_to_led(call.cell)
           IN  /\ mapping[1] = "A" => mapping[2] \in DOMAIN stripA
               /\ mapping[1] = "B" => mapping[2] \in DOMAIN stripB
               /\ DOMAIN stripA = 0..119
               /\ DOMAIN stripB = 0..63
    /\ (call.fn = "cells_of_led" /\ call.done) => Cardinality(call.out) = 1

\* the last LED of strip B is the image of the first cell of the last row
C21_Witness ==
    /\ call.fn = "cells_of_led"
    /\ call.done
    /\ call.strip = "B"
    /\ call.index = 63
    /\ call.out = {<<15, 0>>}

=============================================================================
